---- MODULE Spec2Model ----
(***************************************************************************)
(* Model of the port scanner: the scanning engine of scanner.rs (probe,    *)
(* retry wrapper, the two orchestrators and their probe tasks) and the     *)
(* event loop of main.rs that starts and aborts runs and drains the        *)
(* channel.                                                                *)
(*                                                                         *)
(* Tasks run on the worker threads of the tokio runtime while the event    *)
(* loop runs on the main thread without ever awaiting, so every step of a  *)
(* task interleaves freely with the event loop.  One action of a task is   *)
(* the code between two await points; one action of the event loop is one  *)
(* iteration of `loop { ... }`.                                            *)
(***************************************************************************)
EXTENDS Integers, Sequences, FiniteSets, TLC

VARIABLES
    scan_task,        \* main.rs:37  0 = None, r = Some(handle of run r)
    scan_started_at,  \* main.rs:38  FALSE = None, TRUE = Some(instant)
    is_scanning,      \* ui.rs:39
    results,          \* ui.rs:37    app.results
    total_scanned,    \* ui.rs:42
    log_events,       \* ui.rs:38
    chan,             \* main.rs:32  buffer of the mpsc channel
    nruns,            \* number of orchestrator tasks spawned so far
    orch,             \* per run: the orchestrator task (scan_range / scan_top_ports)
    sem,              \* per run: permits available in its Semaphore
    tasks,            \* per <<run, port>>: the spawned probe task
    emitted,          \* per run: the ports of what it has pushed into the channel, in order
    retry_budget,     \* scan_with_retries called on its own: its `retries`
    stub,             \* ... the results its successive attempts get
    retry_w,          \* ... and the state of its future
    probe_in,         \* scan_port_once called on its own: its arguments and what the peer does
    probe_out         \* ... and the ScanResult it returned

runVars == <<scan_task, scan_started_at, is_scanning, results, total_scanned,
             log_events, chan, nruns, orch, sem, tasks, emitted>>
retryVars == <<retry_budget, stub, retry_w>>
probeVars == <<probe_in, probe_out>>
vars == <<runVars, retryVars, probeVars>>

(***************************************************************************)
(* Bounds of the model.                                                    *)
(***************************************************************************)
\* number of scan runs started in one behaviour
MaxRuns == 2
\* largest range (end_port - start_port + 1) a modelled range scan covers
MaxRange == 2
\* number of leading entries of TOP_PORTS a modelled top-ports scan covers
TopLen == 2
\* a key press is handled only while log_events holds fewer lines than this
MaxLog == 3
\* the channel's capacity (2048 at main.rs:32), scaled so that it fills
ChannelCapacity == 2
\* scan_range's concurrency (256 at scanner.rs:111), scaled so that it binds
RangeConcurrency == 2
\* scan_top_ports' concurrency (128 at scanner.rs:152), scaled likewise
TopConcurrency == 1

(***************************************************************************)
(* Program constants.                                                      *)
(***************************************************************************)
U16Max == 65535
BaseBackoffMs == 100
RangeRetries == 1
TopRetries == 0
DefaultStartPort == 1
DefaultEndPort == 65535

TOP_PORTS ==
    <<21, 22, 23, 25, 53, 80, 110, 143, 443, 445, 3306, 3389, 5432, 5900,
      8080, 8443, 9200>>

Min(a, b) == IF a <= b THEN a ELSE b

(***************************************************************************)
(* services.rs                                                             *)
(***************************************************************************)
\* a faulty table: the entry of port 9200 left out
identify_service_short(port) ==
    CASE port = 21 -> "ftp"
      [] port = 22 -> "ssh"
      [] port = 23 -> "telnet"
      [] port = 25 -> "smtp"
      [] port = 53 -> "dns"
      [] port = 80 -> "http"
      [] port = 110 -> "pop3"
      [] port = 143 -> "imap"
      [] port = 443 -> "https"
      [] port = 445 -> "smb"
      [] port = 3306 -> "mysql"
      [] port = 3389 -> "rdp"
      [] port = 5432 -> "postgres"
      [] port = 5900 -> "vnc"
      [] port = 8080 -> "http-alt"
      [] port = 8443 -> "https-alt"
      [] OTHER -> "unknown"

identify_service(port) ==
    CASE port = 21 -> "ftp"
      [] port = 22 -> "ssh"
      [] port = 23 -> "telnet"
      [] port = 25 -> "smtp"
      [] port = 53 -> "dns"
      [] port = 80 -> "http"
      [] port = 110 -> "pop3"
      [] port = 143 -> "imap"
      [] port = 443 -> "https"
      [] port = 445 -> "smb"
      [] port = 3306 -> "mysql"
      [] port = 3389 -> "rdp"
      [] port = 5432 -> "postgres"
      [] port = 5900 -> "vnc"
      [] port = 8080 -> "http-alt"
      [] port = 8443 -> "https-alt"
      [] port = 9200 -> "elasticsearch"
      [] OTHER -> "unknown"

(***************************************************************************)
(* Text.  A string is a sequence of one-character strings.                 *)
(***************************************************************************)
IsSpace(c) == c \in {" ", "\t", "\n", "\r"}

RECURSIVE TrimStart(_)
TrimStart(s) ==
    IF s # <<>> /\ IsSpace(Head(s)) THEN TrimStart(Tail(s)) ELSE s

RECURSIVE TrimEnd(_)
TrimEnd(s) ==
    IF s # <<>> /\ IsSpace(s[Len(s)]) THEN TrimEnd(SubSeq(s, 1, Len(s) - 1)) ELSE s

\* str::trim
Trim(s) == TrimEnd(TrimStart(s))

DigitValue(c) ==
    CASE c = "0" -> 0 [] c = "1" -> 1 [] c = "2" -> 2 [] c = "3" -> 3
      [] c = "4" -> 4 [] c = "5" -> 5 [] c = "6" -> 6 [] c = "7" -> 7
      [] c = "8" -> 8 [] c = "9" -> 9 [] OTHER -> -1

\* str::parse::<u16>: Err (here -1) on an empty string, a character that is
\* no digit (a leading "+" aside) or a value above u16::MAX
RECURSIVE ParseDigits(_, _)
ParseDigits(s, acc) ==
    IF s = <<>> THEN acc
    ELSE IF DigitValue(Head(s)) < 0 THEN -1
    ELSE IF acc * 10 + DigitValue(Head(s)) > U16Max THEN -1
    ELSE ParseDigits(Tail(s), acc * 10 + DigitValue(Head(s)))

ParseU16(s) ==
    LET body == IF s # <<>> /\ Head(s) = "+" THEN Tail(s) ELSE s
    IN  IF body = <<>> THEN -1 ELSE ParseDigits(body, 0)

\* Result::unwrap_or
UnwrapOr(parsed, default) == IF parsed < 0 THEN default ELSE parsed

(***************************************************************************)
(* scanner.rs: ScanResult and scan_port_once                               *)
(***************************************************************************)
RangeTimeoutMs == 3000
TopTimeoutMs == 2000

\* Option<String>
NoBanner == [some |-> FALSE, text |-> <<>>]
SomeBanner(t) == [some |-> TRUE, text |-> t]

\* what TcpStream::connect under tokio::time::timeout gives
ConnectResults == {"connected", "failed", "elapsed"}

\* what stream.read under its 500 ms timeout gives: Ok(Ok(n)) with the n bytes
\* read, Ok(Err(_)) or Err(Elapsed).  A byte is a one-character string; "\xff"
\* stands for a byte that is no valid UTF-8.
ReadBytes(data) == [kind |-> "bytes", data |-> data]
ReadError == [kind |-> "error", data |-> <<>>]
ReadElapsed == [kind |-> "elapsed", data |-> <<>>]

\* String::from_utf8_lossy: an invalid byte becomes U+FFFD
Utf8Lossy(data) == [i \in 1..Len(data) |-> IF data[i] = "\\xff" THEN "U+FFFD" ELSE data[i]]

\* a faulty probe: a refused connection reports the error text as its banner
ScanPortOnceBannerOnRefusal(port, timeoutMs, conn, read, elapsedMs) ==
    CASE conn = "connected" ->
            [port |-> port, status |-> "open", service |-> identify_service(port),
             response_ms |-> elapsedMs,
             banner |-> IF read.kind = "bytes" /\ Len(read.data) > 0
                        THEN SomeBanner(Trim(Utf8Lossy(read.data)))
                        ELSE NoBanner]
      [] conn = "failed" ->
            [port |-> port, status |-> "closed", service |-> identify_service(port),
             response_ms |-> elapsedMs, banner |-> SomeBanner(<<"E">>)]
      [] OTHER ->
            [port |-> port, status |-> "timeout", service |-> identify_service(port),
             response_ms |-> timeoutMs, banner |-> NoBanner]

\* a faulty probe: a read that fails after the connect reports the port closed
ScanPortOnceReadEscalates(port, timeoutMs, conn, read, elapsedMs) ==
    CASE conn = "connected" ->
            [port |-> port,
             status |-> IF read.kind = "error" THEN "closed" ELSE "open",
             service |-> identify_service(port),
             response_ms |-> elapsedMs,
             banner |-> IF read.kind = "bytes" /\ Len(read.data) > 0
                        THEN SomeBanner(Trim(Utf8Lossy(read.data)))
                        ELSE NoBanner]
      [] conn = "failed" ->
            [port |-> port, status |-> "closed", service |-> identify_service(port),
             response_ms |-> elapsedMs, banner |-> NoBanner]
      [] OTHER ->
            [port |-> port, status |-> "timeout", service |-> identify_service(port),
             response_ms |-> timeoutMs, banner |-> NoBanner]

ScanPortOnce(port, timeoutMs, conn, read, elapsedMs) ==
    CASE conn = "connected" ->
            [port |-> port, status |-> "open", service |-> identify_service(port),
             response_ms |-> elapsedMs,
             banner |-> IF read.kind = "bytes" /\ Len(read.data) > 0
                        THEN SomeBanner(Trim(Utf8Lossy(read.data)))
                        ELSE NoBanner]
      [] conn = "failed" ->
            [port |-> port, status |-> "closed", service |-> identify_service(port),
             response_ms |-> elapsedMs, banner |-> NoBanner]
      [] OTHER ->
            [port |-> port, status |-> "timeout", service |-> identify_service(port),
             response_ms |-> timeoutMs, banner |-> NoBanner]

\* the value scan_range and scan_top_ports send last
Sentinel ==
    [port |-> 0, status |-> "DONE", service |-> "", response_ms |-> 0,
     banner |-> NoBanner]

(***************************************************************************)
(* scanner.rs: scan_with_retries, as the state of its future.              *)
(*   pc = "attempt": awaiting scan_port_once; i counts the iterations of   *)
(*        `for _ in 0..=retries` entered so far, i > retries is the call   *)
(*        after the loop                                                   *)
(*   pc = "sleep":   awaiting tokio::time::sleep(backoff)                  *)
(*   pc = "ret":     returned res                                          *)
(* calls records, in order, the attempts made (with the status each got)   *)
(* and the sleeps performed (with their duration in ms).                   *)
(***************************************************************************)
NoResult == [port |-> 0, status |-> "", service |-> "", response_ms |-> 0, banner |-> NoBanner]

RetryInit ==
    [pc |-> "attempt", i |-> 0, backoff |-> BaseBackoffMs, calls |-> <<>>,
     res |-> NoResult]

\* a faulty test: a refused connection counted as inconclusive
ConclusiveOpenOnly(res) == res.status = "open"

\* the loop's test on the result of an attempt
Conclusive(res) == res.status = "open" \/ res.status = "closed"

\* scan_port_once has returned res
RetryAttempt(w, retries, res) ==
    LET called == Append(w.calls, <<"attempt", res.status>>)
    IN  IF w.i <= retries
        THEN IF Conclusive(res)
             THEN [w EXCEPT !.pc = "ret", !.calls = called, !.res = res]
             ELSE [w EXCEPT !.pc = "sleep", !.calls = called, !.res = res]
        ELSE [w EXCEPT !.pc = "ret", !.calls = called, !.res = res]

\* a faulty wrapper: `backoff *= 2` left out
RetrySleepNoDoubling(w) ==
    [w EXCEPT !.pc = "attempt", !.calls = Append(@, <<"sleep", w.backoff>>),
              !.i = @ + 1]

\* the sleep has elapsed: backoff *= 2 and the next iteration
RetrySleep(w) ==
    [w EXCEPT !.pc = "attempt", !.calls = Append(@, <<"sleep", w.backoff>>),
              !.backoff = @ * 2, !.i = @ + 1]

\* the attempts and the sleeps among the calls of w
AttemptsOf(w) == {j \in 1..Len(w.calls) : w.calls[j][1] = "attempt"}
SleepsOf(w) == {j \in 1..Len(w.calls) : w.calls[j][1] = "sleep"}

(***************************************************************************)
(* scanner.rs: the orchestrators and their probe tasks.                    *)
(*                                                                         *)
(* orch[r], the task main.rs spawns for run r:                             *)
(*   pc = "spawned"   not polled yet                                       *)
(*   pc = "joining"   probe tasks spawned; pending in `h.await`            *)
(*   pc = "sending"   past the join loop, in the poll that calls tx.send   *)
(*   pc = "blocked"   pending in tx.send(..).await, the channel being full *)
(*   pc = "done"      returned                                             *)
(*   pc = "panicked"  ended by a panic                                     *)
(*   pc = "cancelled" dropped by the runtime after JoinHandle::abort       *)
(*   abort            JoinHandle::abort was called before it returned      *)
(* tokio drops an aborted task the next time it is pending: a task that is *)
(* being polled when abort is called finishes that poll first.             *)
(*                                                                         *)
(* tasks[<<r, port>>], the task spawned for one port:                      *)
(*   pc = "acquire"   pending in sem.acquire()                             *)
(*   pc = "scan"      in scan_with_retries, whose state is w               *)
(*   pc = "send"      pending in tx.send(res)                              *)
(*   pc = "done"      returned, permit dropped                             *)
(***************************************************************************)
Concurrency(mode) == IF mode = "range" THEN RangeConcurrency ELSE TopConcurrency
TimeoutMs(mode) == IF mode = "range" THEN RangeTimeoutMs ELSE TopTimeoutMs
Retries(mode) == IF mode = "range" THEN RangeRetries ELSE TopRetries

\* the ports `for &port in TOP_PORTS` visits
TopPortSet == {TOP_PORTS[i] : i \in 1..Min(TopLen, Len(TOP_PORTS))}

\* a faulty dispatch loop: `start_port..end_port` for `start_port..=end_port`
PortsOfHalfOpen(o) ==
    IF o.mode = "range" THEN o.start_port..(o.end_port - 1) ELSE TopPortSet

\* a faulty dispatch loop: `start_port..end_port + 1` with wrapping u16 addition
RangeExclusivePlusOne(start_port, end_port) ==
    [i \in 1..(((end_port + 1) % (U16Max + 1)) - start_port) |-> start_port + i - 1]

\* RangeInclusive<u16>::next called until it gives None, from the state <<the
\* next port, whether the range is exhausted>>: the port is incremented only
\* while it is below end_port, so never past u16::MAX
RECURSIVE RangeInclusiveFrom(_, _, _, _)
RangeInclusiveFrom(port, end_port, exhausted, visited) ==
    IF exhausted \/ port > end_port THEN visited
    ELSE IF port < end_port
         THEN RangeInclusiveFrom(port + 1, end_port, FALSE, Append(visited, port))
         ELSE RangeInclusiveFrom(port, end_port, TRUE, Append(visited, port))

\* the ports `for port in start_port..=end_port` visits, in order
RangeInclusive(start_port, end_port) ==
    RangeInclusiveFrom(start_port, end_port, FALSE, <<>>)

\* the ports the dispatch loop of run r visits
PortsOf(o) ==
    IF o.mode = "range"
    THEN LET visited == RangeInclusive(o.start_port, o.end_port)
         IN  {visited[i] : i \in 1..Len(visited)}
    ELSE TopPortSet

Runs == 1..nruns
TasksOf(r) == {t \in DOMAIN tasks : t[1] = r}

NewTask == [pc |-> "acquire", w |-> RetryInit, res |-> NoResult]

\* `end_port - start_port + 1` of scan_range, in u16, leaves the range of u16
CapacityOverflows(o) ==
    /\ o.mode = "range"
    /\ \/ o.end_port - o.start_port < 0
       \/ o.end_port - o.start_port + 1 > U16Max

\* first poll of the orchestrator: Semaphore::new, the Vec of handles and the
\* dispatch loop, which spawns one task per port without awaiting.  When the
\* capacity of the Vec overflows, a build with overflow checks (the dev
\* profile) panics there and a build without them (the release profile) wraps
\* and goes on.
OrchSpawn(r) ==
    /\ orch[r].pc = "spawned"
    /\ ~orch[r].abort
    /\ \E overflow_checks \in BOOLEAN :
          IF CapacityOverflows(orch[r]) /\ overflow_checks
          THEN /\ orch' = [orch EXCEPT ![r].pc = "panicked"]
               /\ UNCHANGED <<sem, tasks>>
          ELSE /\ orch' = [orch EXCEPT ![r].pc = "joining"]
               /\ sem' = [sem EXCEPT ![r] = Concurrency(orch[r].mode)]
               /\ tasks' = tasks @@ [t \in {<<r, p>> : p \in PortsOf(orch[r])} |-> NewTask]
    /\ UNCHANGED <<scan_task, scan_started_at, is_scanning, results, total_scanned,
                   log_events, chan, nruns, emitted>>

\* a faulty orchestrator: the join loop left out
AllReturnedNoJoin(r) == TRUE

\* `for h in handles { let _ = h.await; }` has run through
AllReturned(r) == \A t \in TasksOf(r) : tasks[t].pc = "done"

OrchJoin(r) ==
    /\ orch[r].pc = "joining"
    /\ ~orch[r].abort
    /\ AllReturned(r)
    /\ orch' = [orch EXCEPT ![r].pc = "sending"]
    /\ UNCHANGED <<scan_task, scan_started_at, is_scanning, results, total_scanned,
                   log_events, chan, nruns, sem, tasks, emitted>>

\* a faulty orchestrator: try_send for send, the sentinel given up when the
\* channel is full
OrchSendOrDrop(r) ==
    /\ orch[r].pc = "sending"
    /\ orch' = [orch EXCEPT ![r].pc = "done"]
    /\ IF Len(chan) < ChannelCapacity
       THEN /\ chan' = Append(chan, Sentinel)
            /\ emitted' = [emitted EXCEPT ![r] = Append(@, Sentinel.port)]
       ELSE UNCHANGED <<chan, emitted>>
    /\ UNCHANGED <<scan_task, scan_started_at, is_scanning, results, total_scanned,
                   log_events, nruns, sem, tasks>>

\* tx.send(sentinel), reached in the poll that left the join loop
OrchSend(r) ==
    /\ orch[r].pc = "sending"
    /\ IF Len(chan) < ChannelCapacity
       THEN /\ chan' = Append(chan, Sentinel)
            /\ emitted' = [emitted EXCEPT ![r] = Append(@, Sentinel.port)]
            /\ orch' = [orch EXCEPT ![r].pc = "done"]
       ELSE /\ orch' = [orch EXCEPT ![r].pc = "blocked"]
            /\ UNCHANGED <<chan, emitted>>
    /\ UNCHANGED <<scan_task, scan_started_at, is_scanning, results, total_scanned,
                   log_events, nruns, sem, tasks>>

\* tx.send(sentinel) resumes once the channel has room
OrchUnblock(r) ==
    /\ orch[r].pc = "blocked"
    /\ ~orch[r].abort
    /\ Len(chan) < ChannelCapacity
    /\ chan' = Append(chan, Sentinel)
    /\ emitted' = [emitted EXCEPT ![r] = Append(@, Sentinel.port)]
    /\ orch' = [orch EXCEPT ![r].pc = "done"]
    /\ UNCHANGED <<scan_task, scan_started_at, is_scanning, results, total_scanned,
                   log_events, nruns, sem, tasks>>

\* the runtime drops the aborted orchestrator: its future, and with it the
\* Vec of JoinHandles, is dropped; a dropped JoinHandle detaches its task
OrchCancel(r) ==
    /\ orch[r].abort
    /\ orch[r].pc \in {"spawned", "joining", "blocked"}
    /\ orch' = [orch EXCEPT ![r].pc = "cancelled"]
    /\ UNCHANGED <<scan_task, scan_started_at, is_scanning, results, total_scanned,
                   log_events, chan, nruns, sem, tasks, emitted>>

\* sem.acquire().await
TaskAcquire(t) ==
    /\ tasks[t].pc = "acquire"
    /\ sem[t[1]] > 0
    /\ sem' = [sem EXCEPT ![t[1]] = @ - 1]
    /\ tasks' = [tasks EXCEPT ![t].pc = "scan", ![t].w = RetryInit]
    /\ UNCHANGED <<scan_task, scan_started_at, is_scanning, results, total_scanned,
                   log_events, chan, nruns, orch, emitted>>

\* one scan_port_once inside scan_with_retries resolves
TaskAttempt(t, conn, read, elapsedMs) ==
    /\ tasks[t].pc = "scan"
    /\ tasks[t].w.pc = "attempt"
    /\ LET mode == orch[t[1]].mode
           res == ScanPortOnce(t[2], TimeoutMs(mode), conn, read, elapsedMs)
           w2 == RetryAttempt(tasks[t].w, Retries(mode), res)
       IN  tasks' = [tasks EXCEPT ![t] =
                        IF w2.pc = "ret"
                        THEN [pc |-> "send", w |-> RetryInit, res |-> w2.res]
                        ELSE [pc |-> "scan", w |-> w2, res |-> NoResult]]
    /\ UNCHANGED <<scan_task, scan_started_at, is_scanning, results, total_scanned,
                   log_events, chan, nruns, orch, sem, emitted>>

\* the backoff sleep inside scan_with_retries elapses
TaskSleep(t) ==
    /\ tasks[t].pc = "scan"
    /\ tasks[t].w.pc = "sleep"
    /\ tasks' = [tasks EXCEPT ![t].w = RetrySleep(@)]
    /\ UNCHANGED <<scan_task, scan_started_at, is_scanning, results, total_scanned,
                   log_events, chan, nruns, orch, sem, emitted>>

\* a faulty task: the permit is forgotten instead of dropped
TaskSendKeepsPermit(t) ==
    /\ tasks[t].pc = "send"
    /\ Len(chan) < ChannelCapacity
    /\ chan' = Append(chan, tasks[t].res)
    /\ emitted' = [emitted EXCEPT ![t[1]] = Append(@, tasks[t].res.port)]
    /\ tasks' = [tasks EXCEPT ![t] = [pc |-> "done", w |-> RetryInit, res |-> NoResult]]
    /\ UNCHANGED <<scan_task, scan_started_at, is_scanning, results, total_scanned,
                   log_events, nruns, orch, sem>>

\* a faulty task: try_send for send, the outcome given up when the channel is full
TaskSendOrDrop(t) ==
    /\ tasks[t].pc = "send"
    /\ IF Len(chan) < ChannelCapacity
       THEN /\ chan' = Append(chan, tasks[t].res)
            /\ emitted' = [emitted EXCEPT ![t[1]] = Append(@, tasks[t].res.port)]
       ELSE UNCHANGED <<chan, emitted>>
    /\ sem' = [sem EXCEPT ![t[1]] = @ + 1]
    /\ tasks' = [tasks EXCEPT ![t] = [pc |-> "done", w |-> RetryInit, res |-> NoResult]]
    /\ UNCHANGED <<scan_task, scan_started_at, is_scanning, results, total_scanned,
                   log_events, nruns, orch>>

\* tx.send(res).await completes, then drop(permit) and the task returns
TaskSend(t) ==
    /\ tasks[t].pc = "send"
    /\ Len(chan) < ChannelCapacity
    /\ chan' = Append(chan, tasks[t].res)
    /\ emitted' = [emitted EXCEPT ![t[1]] = Append(@, tasks[t].res.port)]
    /\ sem' = [sem EXCEPT ![t[1]] = @ + 1]
    /\ tasks' = [tasks EXCEPT ![t] = [pc |-> "done", w |-> RetryInit, res |-> NoResult]]
    /\ UNCHANGED <<scan_task, scan_started_at, is_scanning, results, total_scanned,
                   log_events, nruns, orch>>

(***************************************************************************)
(* main.rs: the event loop.  The text fields of the App are edited by key  *)
(* handlers that touch nothing else, so what they hold when a scan is      *)
(* requested is an input of the request.  'q' leaves the loop and ends the *)
(* process; it is not modelled.                                            *)
(***************************************************************************)
HostInputs == {<<" ">>, <<" ", "h">>}
StartPortInputs == {<<>>, <<"0">>, <<"2">>}
EndPortInputs == {<<>>, <<"0">>, <<"2">>}

\* a faulty validation: the tests for port 0 left out
InvalidRangeNoZero(start_port, end_port) == start_port > end_port

\* the test of main.rs:76
InvalidRange(start_port, end_port) ==
    start_port = 0 \/ end_port = 0 \/ start_port > end_port

\* the state the event loop owns
Consumer ==
    [scan_task |-> scan_task, scan_started_at |-> scan_started_at,
     is_scanning |-> is_scanning, results |-> results,
     total_scanned |-> total_scanned, log_events |-> log_events]

\* the body of `while let Ok(result) = app.rx.try_recv()` for one result
Receive(c, result) ==
    IF result.port = 0 /\ result.status = "DONE"
    THEN [c EXCEPT !.is_scanning = FALSE,
                   !.log_events = Append(@, IF c.scan_started_at
                                            THEN "Scan finished in"
                                            ELSE "Scan finished"),
                   !.scan_started_at = FALSE,
                   !.scan_task = 0]
    ELSE [c EXCEPT !.results = Append(@, result),
                   !.total_scanned = @ + 1]

\* the whole drain loop over what the channel holds
RECURSIVE Drain(_, _)
Drain(c, q) == IF q = <<>> THEN c ELSE Drain(Receive(c, Head(q)), Tail(q))

\* the end of an iteration that reached the drain loop, from consumer state c
EndIteration(c) ==
    LET d == Drain(c, chan)
    IN  /\ scan_task' = d.scan_task
        /\ scan_started_at' = d.scan_started_at
        /\ is_scanning' = d.is_scanning
        /\ results' = d.results
        /\ total_scanned' = d.total_scanned
        /\ log_events' = d.log_events
        /\ chan' = <<>>

\* a faulty handler: the log line pushed without the `continue`
RejectedThenDrain(msg) ==
    /\ EndIteration([Consumer EXCEPT !.log_events = Append(@, msg)])
    /\ UNCHANGED <<nruns, orch, sem, tasks, emitted>>

\* an iteration left by `continue` after pushing a log line
Rejected(msg) ==
    /\ log_events' = Append(log_events, msg)
    /\ UNCHANGED <<scan_task, scan_started_at, is_scanning, results, total_scanned,
                   chan, nruns, orch, sem, tasks, emitted>>

\* tokio::spawn of the orchestrator and the bookkeeping that follows it
Started(target_host, mode, start_port, end_port, msg) ==
    /\ nruns < MaxRuns
    /\ nruns' = nruns + 1
    /\ orch' = Append(orch, [pc |-> "spawned", mode |-> mode, abort |-> FALSE,
                             host |-> target_host,
                             start_port |-> start_port, end_port |-> end_port])
    /\ sem' = Append(sem, 0)
    /\ emitted' = Append(emitted, <<>>)
    /\ UNCHANGED tasks
    /\ EndIteration([Consumer EXCEPT !.results = <<>>,
                                     !.total_scanned = 0,
                                     !.scan_task = nruns + 1,
                                     !.scan_started_at = TRUE,
                                     !.is_scanning = TRUE,
                                     !.log_events = Append(@, msg)])

\* KeyCode::Char('s') | KeyCode::Enter
KeyStartRange(host_input, start_port_input, end_port_input) ==
    LET target_host == Trim(host_input)
        start_port == UnwrapOr(ParseU16(start_port_input), DefaultStartPort)
        end_port == UnwrapOr(ParseU16(end_port_input), DefaultEndPort)
    IN  /\ Len(log_events) < MaxLog
        /\ IF target_host = <<>> THEN Rejected("Host is empty")
           ELSE IF scan_task # 0 THEN Rejected("Scan already running")
           ELSE IF InvalidRange(start_port, end_port) THEN Rejected("Invalid port range")
           ELSE /\ end_port - start_port < MaxRange
                /\ Started(target_host, "range", start_port, end_port, "Scan started")

\* KeyCode::Char('t')
KeyStartTop(host_input) ==
    LET target_host == Trim(host_input)
    IN  /\ Len(log_events) < MaxLog
        /\ IF target_host = <<>> THEN Rejected("Host is empty")
           ELSE IF scan_task # 0 THEN Rejected("Scan already running")
           ELSE Started(target_host, "top", 0, 0, "Top ports scan started")

\* a faulty handler: the flag left for the sentinel to clear
KeyAbortKeepsFlag ==
    /\ Len(log_events) < MaxLog
    /\ IF scan_task # 0
       THEN /\ orch' = [orch EXCEPT ![scan_task].abort =
                            orch[scan_task].pc \notin {"done", "panicked", "cancelled"}]
            /\ EndIteration([Consumer EXCEPT !.scan_task = 0,
                                             !.scan_started_at = FALSE,
                                             !.log_events = Append(@, "Scan aborted")])
       ELSE /\ UNCHANGED orch
            /\ EndIteration([Consumer EXCEPT !.log_events = Append(@, "No active scan")])
    /\ UNCHANGED <<nruns, sem, tasks, emitted>>

\* KeyCode::Char('c')
KeyAbort ==
    /\ Len(log_events) < MaxLog
    /\ IF scan_task # 0
       THEN /\ orch' = [orch EXCEPT ![scan_task].abort =
                            orch[scan_task].pc \notin {"done", "panicked", "cancelled"}]
            /\ EndIteration([Consumer EXCEPT !.scan_task = 0,
                                             !.is_scanning = FALSE,
                                             !.scan_started_at = FALSE,
                                             !.log_events = Append(@, "Scan aborted")])
       ELSE /\ UNCHANGED orch
            /\ EndIteration([Consumer EXCEPT !.log_events = Append(@, "No active scan")])
    /\ UNCHANGED <<nruns, sem, tasks, emitted>>

\* an iteration in which no key press arrives within the tick
Tick ==
    /\ chan # <<>>
    /\ EndIteration(Consumer)
    /\ UNCHANGED <<nruns, orch, sem, tasks, emitted>>

(***************************************************************************)
(* The specification of the program.                                       *)
(***************************************************************************)
\* what the connect and the read of one attempt may do
RunReads == {ReadBytes(<<"S", "\n">>)}
RunElapsedMs == {1}

InitRun ==
    /\ scan_task = 0
    /\ scan_started_at = FALSE
    /\ is_scanning = FALSE
    /\ results = <<>>
    /\ total_scanned = 0
    /\ log_events = <<>>
    /\ chan = <<>>
    /\ nruns = 0
    /\ orch = <<>>
    /\ sem = <<>>
    /\ tasks = <<>>
    /\ emitted = <<>>

\* scan_with_retries and scan_port_once are not called on their own
InitRetryIdle ==
    /\ retry_budget = 0
    /\ stub = <<>>
    /\ retry_w = RetryInit

InitProbeIdle ==
    /\ probe_in = [port |-> 0, timeoutMs |-> 0, conn |-> "", read |-> ReadElapsed,
                   elapsedMs |-> 0]
    /\ probe_out = NoResult

Init ==
    /\ InitRun
    /\ InitRetryIdle
    /\ InitProbeIdle

Next ==
    \/ /\ \E h \in HostInputs, s \in StartPortInputs, e \in EndPortInputs :
             KeyStartRange(h, s, e)
       /\ UNCHANGED <<retryVars, probeVars>>
    \/ /\ \E h \in HostInputs : KeyStartTop(h)
       /\ UNCHANGED <<retryVars, probeVars>>
    \/ /\ KeyAbort
       /\ UNCHANGED <<retryVars, probeVars>>
    \/ /\ Tick
       /\ UNCHANGED <<retryVars, probeVars>>
    \/ /\ \E r \in Runs : OrchSpawn(r)
       /\ UNCHANGED <<retryVars, probeVars>>
    \/ /\ \E r \in Runs : OrchJoin(r)
       /\ UNCHANGED <<retryVars, probeVars>>
    \/ /\ \E r \in Runs : OrchSend(r)
       /\ UNCHANGED <<retryVars, probeVars>>
    \/ /\ \E r \in Runs : OrchUnblock(r)
       /\ UNCHANGED <<retryVars, probeVars>>
    \/ /\ \E r \in Runs : OrchCancel(r)
       /\ UNCHANGED <<retryVars, probeVars>>
    \/ /\ \E t \in DOMAIN tasks : TaskAcquire(t)
       /\ UNCHANGED <<retryVars, probeVars>>
    \/ /\ \E t \in DOMAIN tasks, conn \in ConnectResults, read \in RunReads,
             ms \in RunElapsedMs : TaskAttempt(t, conn, read, ms)
       /\ UNCHANGED <<retryVars, probeVars>>
    \/ /\ \E t \in DOMAIN tasks : TaskSleep(t)
       /\ UNCHANGED <<retryVars, probeVars>>
    \/ /\ \E t \in DOMAIN tasks : TaskSend(t)
       /\ UNCHANGED <<retryVars, probeVars>>

Spec == Init /\ [][Next]_vars

\* a step of a task of the runtime or an iteration of the event loop without
\* a key press
Progress ==
    \/ Tick
    \/ \E r \in Runs : OrchSpawn(r) \/ OrchJoin(r) \/ OrchSend(r) \/ OrchUnblock(r)
    \/ \E t \in DOMAIN tasks : TaskAcquire(t) \/ TaskSleep(t) \/ TaskSend(t)
    \/ \E t \in DOMAIN tasks, conn \in ConnectResults, read \in RunReads,
          ms \in RunElapsedMs : TaskAttempt(t, conn, read, ms)

\* The scheduling the runtime and the event loop provide: the event loop keeps
\* iterating, a task that can run is polled, and a connect or a read under a
\* timeout and a sleep resolve; so as long as one of these steps is possible,
\* one is taken.
Fairness == WF_vars(Progress /\ UNCHANGED <<retryVars, probeVars>>)

SpecLive == Init /\ [][Next]_vars /\ Fairness

(***************************************************************************)
(* scan_with_retries on its own, against a stub probe: the specification   *)
(* of its claims.  retry_budget is its `retries` argument and stub[j] is   *)
(* what the connect of its j-th scan_port_once does.                       *)
(***************************************************************************)
\* largest retry budget tried
MaxRetries == 3

\* scan_port_once on port 80 under the stub: a connect that succeeds takes 1 ms
\* and is followed by a read that times out
StubProbe(conn) == ScanPortOnce(80, RangeTimeoutMs, conn, ReadElapsed, 1)

InitRetry ==
    /\ InitRun
    /\ InitProbeIdle
    /\ retry_budget \in 0..MaxRetries
    /\ stub \in [1..(retry_budget + 2) -> ConnectResults]
    /\ retry_w = RetryInit

\* the pending scan_port_once resolves with what the stub says
StubAttempt ==
    /\ retry_w.pc = "attempt"
    /\ LET j == Cardinality(AttemptsOf(retry_w)) + 1
       IN  retry_w' = RetryAttempt(retry_w, retry_budget, StubProbe(stub[j]))
    /\ UNCHANGED <<retry_budget, stub, runVars, probeVars>>

\* the pending sleep elapses
StubSleep ==
    /\ retry_w.pc = "sleep"
    /\ retry_w' = RetrySleep(retry_w)
    /\ UNCHANGED <<retry_budget, stub, runVars, probeVars>>

NextRetry == StubAttempt \/ StubSleep

SpecRetry == InitRetry /\ [][NextRetry]_vars

(***************************************************************************)
(* scan_range called on its own, by a caller that passes it any two ports  *)
(* and drains the receiver as the event loop does: the specification of    *)
(* the claims about calls the event loop never makes.                      *)
(***************************************************************************)
\* the pairs <<start_port, end_port>> of the call, over the MaxRange + 1 lowest
\* and the MaxRange + 1 highest ports: every range of at most MaxRange ports,
\* and every pair with start_port above end_port
DirectPorts == (1..(MaxRange + 1)) \cup ((U16Max - MaxRange)..U16Max)
DirectRanges == {se \in DirectPorts \X DirectPorts : se[2] - se[1] < MaxRange}

InitDirect ==
    /\ InitRetryIdle
    /\ InitProbeIdle
    /\ scan_task = 1
    /\ scan_started_at = TRUE
    /\ is_scanning = TRUE
    /\ results = <<>>
    /\ total_scanned = 0
    /\ log_events = <<>>
    /\ chan = <<>>
    /\ nruns = 1
    /\ \E se \in DirectRanges :
          orch = <<[pc |-> "spawned", mode |-> "range", abort |-> FALSE,
                    host |-> <<"h">>, start_port |-> se[1], end_port |-> se[2]]>>
    /\ sem = <<0>>
    /\ tasks = <<>>
    /\ emitted = << <<>> >>

NextDirect ==
    \/ /\ Tick
       /\ UNCHANGED <<retryVars, probeVars>>
    \/ /\ \E r \in Runs : OrchSpawn(r)
       /\ UNCHANGED <<retryVars, probeVars>>
    \/ /\ \E r \in Runs : OrchJoin(r)
       /\ UNCHANGED <<retryVars, probeVars>>
    \/ /\ \E r \in Runs : OrchSend(r)
       /\ UNCHANGED <<retryVars, probeVars>>
    \/ /\ \E r \in Runs : OrchUnblock(r)
       /\ UNCHANGED <<retryVars, probeVars>>
    \/ /\ \E t \in DOMAIN tasks : TaskAcquire(t)
       /\ UNCHANGED <<retryVars, probeVars>>
    \/ /\ \E t \in DOMAIN tasks, conn \in ConnectResults, read \in RunReads,
             ms \in RunElapsedMs : TaskAttempt(t, conn, read, ms)
       /\ UNCHANGED <<retryVars, probeVars>>
    \/ /\ \E t \in DOMAIN tasks : TaskSleep(t)
       /\ UNCHANGED <<retryVars, probeVars>>
    \/ /\ \E t \in DOMAIN tasks : TaskSend(t)
       /\ UNCHANGED <<retryVars, probeVars>>

SpecDirect == InitDirect /\ [][NextDirect]_vars

(***************************************************************************)
(* scan_port_once on its own: the specification of the claims about one    *)
(* probe.  probe_in holds the arguments of the call, what the connect does *)
(* and what the read that follows a successful connect does.               *)
(***************************************************************************)
\* longest byte sequence the peer sends
MaxBannerLen == 2

\* a printable byte, a space, a line feed and a byte that is no valid UTF-8
PeerBytes == {"S", " ", "\n", "\\xff"}
PeerData == UNION {[1..n -> PeerBytes] : n \in 0..MaxBannerLen}
ProbeReads == {ReadError, ReadElapsed} \cup {ReadBytes(d) : d \in PeerData}

\* the ports of TOP_PORTS and three others
ProbePorts == {TOP_PORTS[i] : i \in 1..Len(TOP_PORTS)} \cup {1, 8081, U16Max}
ProbeTimeouts == {RangeTimeoutMs, TopTimeoutMs}

InitProbe ==
    /\ InitRun
    /\ InitRetryIdle
    /\ probe_in \in [port : ProbePorts, timeoutMs : ProbeTimeouts,
                      conn : ConnectResults, read : ProbeReads, elapsedMs : {1}]
    /\ probe_out = NoResult

\* scan_port_once returns
ProbeResolve ==
    /\ probe_out = NoResult
    /\ probe_out' = ScanPortOnce(probe_in.port, probe_in.timeoutMs, probe_in.conn,
                                 probe_in.read, probe_in.elapsedMs)
    /\ UNCHANGED <<probe_in, runVars, retryVars>>

NextProbe == ProbeResolve

SpecProbe == InitProbe /\ [][NextProbe]_vars

(***************************************************************************)
(* Properties.                                                             *)
(***************************************************************************)
\* the port set a run was asked to scan
Requested(o) ==
    IF o.mode = "range" THEN o.start_port..o.end_port ELSE TopPortSet

\* the ports of emitted[r] before position n
EmittedBefore(r, n) == {emitted[r][i] : i \in 1..(n - 1)}

\* the probe tasks that have a connection attempt in flight
InFlight == {t \in DOMAIN tasks : tasks[t].pc = "scan" /\ tasks[t].w.pc = "attempt"}

\* C1: the non-sentinel outcomes a run has put on the stream have pairwise
\* distinct ports of its requested set P, and once its orchestrator has returned
\* they are exactly |P| outcomes whose ports form P, followed by one sentinel.
C1_RunDeliversRequestedPorts ==
    \A r \in Runs :
        LET e == emitted[r]
            n == Len(e)
            P == Requested(orch[r])
        IN  /\ \A i \in 1..n : e[i] # 0 => e[i] \in P
            /\ \A i, j \in 1..n : (i # j /\ e[i] # 0) => e[i] # e[j]
            /\ orch[r].pc = "done" =>
                  /\ n = Cardinality(P) + 1
                  /\ e[n] = 0
                  /\ EmittedBefore(r, n) = P

\* a range scan of two ports that was not aborted has returned
C1_Witness ==
    \E r \in Runs :
        /\ orch[r].mode = "range"
        /\ ~orch[r].abort
        /\ orch[r].pc = "done"
        /\ Cardinality(Requested(orch[r])) = 2

\* C2: a run's sentinel is on the stream at most once, it is the last thing the
\* run put there, and when it is there every probe task the run dispatched (one
\* for each requested port) has returned.
C2_SentinelAfterJoinBarrier ==
    \A r \in Runs :
        \A i \in 1..Len(emitted[r]) :
            emitted[r][i] = 0 =>
                /\ i = Len(emitted[r])
                /\ \A p \in Requested(orch[r]) :
                      /\ <<r, p>> \in DOMAIN tasks
                      /\ tasks[<<r, p>>].pc = "done"

\* a top-ports run has put its sentinel on the stream
C2_Witness ==
    \E r \in Runs :
        /\ orch[r].mode = "top"
        /\ Len(emitted[r]) = Cardinality(TopPortSet) + 1
        /\ emitted[r][Len(emitted[r])] = 0

\* C3: while a scan is recorded as running, the probe tasks with a connection
\* attempt in flight are never more than the cap of that scan's mode.
C3_InFlightWithinCap ==
    scan_task # 0 =>
        Cardinality(InFlight) <= Concurrency(orch[scan_task].mode)

\* C4: once a run is aborted, none of its probe tasks takes another step (no
\* further attempt, no completed sleep, no outcome pushed).
C4_AbortStopsProbes ==
    [][\A t \in DOMAIN tasks : orch[t[1]].abort => tasks'[t] = tasks[t]]_vars

\* C5: a start is accepted only when, for every earlier run, the orchestrator
\* has returned or been aborted and every probe task has returned.
C5_StartOnlyWhenIdle ==
    [][nruns' > nruns =>
          \A r \in Runs :
              /\ orch[r].pc = "done" \/ orch[r].abort
              /\ \A t \in TasksOf(r) : tasks[t].pc = "done"]_vars

\* C6: an aborted range scan never puts a sentinel on the stream, and it no
\* longer occupies the running-scan slot, so a new start is accepted.
C6_NoSentinelAfterAbort ==
    \A r \in Runs :
        (orch[r].mode = "range" /\ orch[r].abort) =>
            /\ \A i \in 1..Len(emitted[r]) : emitted[r][i] # 0
            /\ scan_task # r

\* C7: every outcome recorded since the last start has a port in 1..65535 of
\* the set requested by that start, and no port is recorded twice.
C7_RecordedPortsOfCurrentRun ==
    nruns > 0 =>
        /\ \A i \in 1..Len(results) :
              /\ results[i].port \in 1..U16Max
              /\ results[i].port \in Requested(orch[nruns])
        /\ \A i, j \in 1..Len(results) :
              i # j => results[i].port # results[j].port

\* the number of leading attempts of the stub that time out
RECURSIVE LeadingTimeouts(_)
LeadingTimeouts(s) ==
    IF s # <<>> /\ Head(s) = "elapsed" THEN 1 + LeadingTimeouts(Tail(s)) ELSE 0

\* k timed-out attempts, each followed by a sleep of base * 2^(its index), then
\* an attempt that finds the port open
TimeoutsThenOpen(k) ==
    [j \in 1..(2 * k + 1) |->
        IF j = 2 * k + 1 THEN <<"attempt", "open">>
        ELSE IF j % 2 = 1 THEN <<"attempt", "timeout">>
        ELSE <<"sleep", BaseBackoffMs * 2 ^ ((j \div 2) - 1)>>]

\* C8: when the probe times out exactly k times and then finds the port open,
\* with k within the retry budget, scan_with_retries returns open after exactly
\* k sleeps of 100, 200, 400, ... ms, one after each timed-out attempt.
C8_BackoffDoubles ==
    LET k == LeadingTimeouts(stub)
    IN  (retry_w.pc = "ret" /\ k <= retry_budget /\ stub[k + 1] = "connected") =>
            /\ retry_w.res.status = "open"
            /\ retry_w.calls = TimeoutsThenOpen(k)

\* the wrapper has returned open after using its whole budget of two or more
C8_Witness ==
    /\ retry_w.pc = "ret"
    /\ LeadingTimeouts(stub) = retry_budget
    /\ retry_budget >= 2
    /\ stub[retry_budget + 1] = "connected"

\* C9: a probe task of a top-ports scan makes one attempt and never sleeps.
C9_TopPortsSingleAttempt ==
    \A t \in DOMAIN tasks :
        orch[t[1]].mode = "top" =>
            /\ tasks[t].w.pc # "sleep"
            /\ SleepsOf(tasks[t].w) = {}
            /\ Cardinality(AttemptsOf(tasks[t].w)) <= 1

\* what is on the stream or has been taken from it and recorded
Outcomes ==
    {chan[i] : i \in 1..Len(chan)} \cup {results[i] : i \in 1..Len(results)}

\* C10: every outcome has status open, closed, timeout or DONE, and has port 0
\* exactly when its status is DONE.
C10_StatusAndPortZero ==
    \A o \in Outcomes :
        /\ o.status \in {"open", "closed", "timeout", "DONE"}
        /\ o.port = 0 <=> o.status = "DONE"

\* the stream holds an outcome of a probe and, behind it, a sentinel
C10_Witness ==
    /\ Len(chan) = 2
    /\ chan[1].port # 0
    /\ chan[2] = Sentinel

\* C11: an outcome carries a banner only when its status is open: no closed or
\* timeout outcome of a probe carries one, and neither does the sentinel.
C11_BannerOnlyWhenOpen ==
    /\ probe_out.banner.some => probe_out.status = "open"
    /\ ~Sentinel.banner.some

\* a probe has returned open with a banner
C11_Witness ==
    /\ probe_out.status = "open"
    /\ probe_out.banner.some

\* C12: a banner an outcome carries is non-empty after trimming, whatever
\* bytes (one or more) the peer sent.
C12_BannerNonEmpty ==
    probe_out.banner.some => Trim(probe_out.banner.text) # <<>>

\* C18: the status of a single probe follows from the connect alone: timeout,
\* with the timeout budget as response time, when it did not complete in time;
\* closed when it failed; open when it succeeded, whatever the read that
\* follows does, a read of zero bytes, timed out or failed leaving the outcome
\* open without a banner.
C18_ClassifiedByConnect ==
    probe_out # NoResult =>
        /\ probe_out.port = probe_in.port
        /\ probe_in.conn = "elapsed" =>
              /\ probe_out.status = "timeout"
              /\ probe_out.response_ms = probe_in.timeoutMs
        /\ probe_in.conn = "failed" => probe_out.status = "closed"
        /\ probe_in.conn = "connected" =>
              /\ probe_out.status = "open"
              /\ (probe_in.read.kind # "bytes" \/ Len(probe_in.read.data) = 0) =>
                    ~probe_out.banner.some

\* a probe whose read failed after the connect has returned
C18_Witness ==
    /\ probe_out # NoResult
    /\ probe_in.conn = "connected"
    /\ probe_in.read = ReadError

\* the reference table of top ports and their service names
ReferenceTable ==
    <<<<21, "ftp">>, <<22, "ssh">>, <<23, "telnet">>, <<25, "smtp">>, <<53, "dns">>,
      <<80, "http">>, <<110, "pop3">>, <<143, "imap">>, <<443, "https">>,
      <<445, "smb">>, <<3306, "mysql">>, <<3389, "rdp">>, <<5432, "postgres">>,
      <<5900, "vnc">>, <<8080, "http-alt">>, <<8443, "https-alt">>,
      <<9200, "elasticsearch">>>>

\* the ports identify_service has an entry for
NamedPorts == {p \in 0..U16Max : identify_service(p) # "unknown"}

C17_ReturnsLastAttempt ==
    LET calls == retry_w.calls
        n == Len(calls)
        made == Cardinality(AttemptsOf(retry_w))
    IN  /\ made <= retry_budget + 2
        /\ retry_w.pc # "ret" => ENABLED NextRetry
        /\ retry_w.pc = "ret" =>
              /\ ~ENABLED NextRetry
              /\ n > 0
              /\ calls[n] = <<"attempt", retry_w.res.status>>
              /\ retry_w.res = StubProbe(stub[made])
              /\ \A j \in AttemptsOf(retry_w) : j < n => calls[j][2] = "timeout"
              /\ retry_w.res.status = "timeout" => made = retry_budget + 2

\* with a budget of one or more, every attempt of the loop and the one after
\* it have timed out and the wrapper has returned timeout
C17_Witness ==
    /\ retry_w.pc = "ret"
    /\ retry_budget >= 1
    /\ retry_w.res.status = "timeout"
    /\ Cardinality(AttemptsOf(retry_w)) = retry_budget + 2

\* the probe tasks of run r that hold a permit of its semaphore
Holding(r) == {t \in TasksOf(r) : tasks[t].pc \in {"scan", "send"}}

\* C16: in every state of a run that has dispatched its probe tasks, aborted or
\* not, the permits held by its tasks plus the permits available equal the cap
\* of its mode; a task makes no attempt before it holds a permit and holds it
\* until its outcome is on the stream; once every task has returned, all
\* permits are available.
C16_PermitsConserved ==
    \A r \in Runs :
        TasksOf(r) # {} =>
            /\ sem[r] >= 0
            /\ sem[r] + Cardinality(Holding(r)) = Concurrency(orch[r].mode)
            /\ \A t \in TasksOf(r) :
                  tasks[t].pc = "acquire" => tasks[t].w.calls = <<>>
            /\ (\A t \in TasksOf(r) : tasks[t].pc = "done") =>
                  sem[r] = Concurrency(orch[r].mode)

\* in an aborted run, one task waits for a permit while another, holding the
\* only one, waits to push its outcome
C16_Witness ==
    \E r \in Runs :
        /\ orch[r].abort
        /\ sem[r] = 0
        /\ \E t \in TasksOf(r) : tasks[t].pc = "acquire"
        /\ \E t \in TasksOf(r) : tasks[t].pc = "send"

\* the sentinels and the outcomes of probes in a sequence of results
IsSentinel(o) == o.port = 0 /\ o.status = "DONE"
SentinelsIn(q) == SelectSeq(q, IsSentinel)
ProbeOutcomesIn(q) == SelectSeq(q, LAMBDA o : ~IsSentinel(o))

\* the lines of a log that report a received sentinel
FinishedLines(log) ==
    SelectSeq(log, LAMBDA l : l \in {"Scan finished", "Scan finished in"})

\* C14: the stream neither drops nor reorders.  It never holds more than its
\* capacity; a producer leaves its send only by putting its outcome at the tail
\* of a stream that had room, and waits otherwise; the stream changes only by
\* such a push or by the consumer taking all it holds, and the consumer then
\* records every outcome of a probe it took, once and in the order of the
\* stream, and handles every sentinel it took.
C14_StreamFifo ==
    [][/\ Len(chan') <= ChannelCapacity
       /\ \A t \in DOMAIN tasks :
             (tasks[t].pc = "send" /\ tasks'[t].pc # "send") =>
                 /\ Len(chan) < ChannelCapacity
                 /\ chan' = Append(chan, tasks[t].res)
       /\ \A r \in Runs :
             (orch[r].pc \in {"sending", "blocked"} /\ orch'[r].pc = "done") =>
                 /\ Len(chan) < ChannelCapacity
                 /\ chan' = Append(chan, Sentinel)
       /\ chan' # chan =>
             \/ /\ Len(chan') = Len(chan) + 1
                /\ SubSeq(chan', 1, Len(chan)) = chan
             \/ /\ chan' = <<>>
                /\ results' = (IF nruns' > nruns THEN <<>> ELSE results)
                                  \o ProbeOutcomesIn(chan)
                /\ total_scanned' = (IF nruns' > nruns THEN 0 ELSE total_scanned)
                                        + Len(ProbeOutcomesIn(chan))
                /\ Len(FinishedLines(log_events')) =
                      Len(FinishedLines(log_events)) + Len(SentinelsIn(chan))]_vars

\* the stream is full, a probe task waits to push its outcome, and the
\* consumer has recorded two outcomes in the order it took them
C14_Witness ==
    /\ Len(chan) = ChannelCapacity
    /\ \E t \in DOMAIN tasks : tasks[t].pc = "send"
    /\ Len(results) = 2
    /\ results[1].port # results[2].port

\* what a rejected start does: one log line more and nothing else
OnlyLogged ==
    /\ Len(log_events') = Len(log_events) + 1
    /\ SubSeq(log_events', 1, Len(log_events)) = log_events
    /\ UNCHANGED <<scan_task, scan_started_at, is_scanning, results, total_scanned,
                   chan, nruns, orch, sem, tasks, emitted>>

\* C20: a start request made with an empty host, while a scan is recorded as
\* running or, for a range, with start_port = 0, end_port = 0 or start_port >
\* end_port spawns no task and changes nothing but the log, which gets one
\* line; so every run was started with a non-empty host and every range run
\* with 1 <= start_port <= end_port <= 65535.
C20_RejectedStartChangesNothing ==
    [][/\ \A h \in HostInputs, s \in StartPortInputs, e \in EndPortInputs :
             LET start_port == UnwrapOr(ParseU16(s), 1)
                 end_port == UnwrapOr(ParseU16(e), 65535)
             IN  (/\ KeyStartRange(h, s, e)
                  /\ \/ Trim(h) = <<>>
                     \/ scan_task # 0
                     \/ start_port = 0
                     \/ end_port = 0
                     \/ start_port > end_port) => OnlyLogged
       /\ \A h \in HostInputs :
             (KeyStartTop(h) /\ (Trim(h) = <<>> \/ scan_task # 0)) => OnlyLogged
       /\ \A r \in 1..nruns' :
             /\ orch'[r].host # <<>>
             /\ orch'[r].mode = "range" =>
                   /\ 1 <= orch'[r].start_port
                   /\ orch'[r].start_port <= orch'[r].end_port
                   /\ orch'[r].end_port <= 65535]_vars

\* a start has just been rejected because a scan is running, with outcomes
\* waiting on the stream
C20_Witness ==
    /\ log_events # <<>>
    /\ log_events[Len(log_events)] = "Scan already running"
    /\ scan_task # 0
    /\ chan # <<>>

\* C15: a run over an empty port set (a range with start_port > end_port)
\* dispatches no probe, puts nothing but its sentinel on the stream and does
\* not end without it.
C15_EmptySetOnlySentinel ==
    \A r \in Runs :
        Requested(orch[r]) = {} =>
            /\ TasksOf(r) = {}
            /\ emitted[r] \in {<<>>, <<0>>}
            /\ orch[r].pc # "panicked"

\* run r has completed: every probe task has returned, the orchestrator has
\* returned, having pushed the sentinel, and the consumer has taken all the
\* stream held
Completed(r) ==
    /\ r \in Runs
    /\ \A p \in Requested(orch[r]) :
          <<r, p>> \in DOMAIN tasks /\ tasks[<<r, p>>].pc = "done"
    /\ orch[r].pc = "done"
    /\ emitted[r] # <<>>
    /\ emitted[r][Len(emitted[r])] = 0
    /\ chan = <<>>

Aborted(r) == r \in Runs /\ orch[r].abort

\* C13: under fair scheduling and a consumer that keeps draining, every run
\* that was started and is never aborted completes, whatever its probes find:
\* from some point on, every run there is has been aborted or has completed.
C13_RunCompletes ==
    <>[](\A r \in Runs : Aborted(r) \/ Completed(r))

\* a run whose probes all timed out at every attempt has completed
C13_Witness ==
    \E r \in Runs :
        /\ Completed(r)
        /\ ~orch[r].abort
        /\ Len(results) = Cardinality(Requested(orch[r]))
        /\ \A i \in 1..Len(results) : results[i].status = "timeout"

\* C21: at the end of every iteration of the event loop the scanning flag is
\* set exactly when the running-scan slot holds a handle: an abort of a
\* recorded scan clears both at once, whatever the stream holds; an iteration
\* that takes a sentinel from the stream ends with both cleared; an accepted
\* start that takes no sentinel ends with both set.
C21_FlagIffSlot ==
    [][/\ is_scanning <=> scan_task # 0
       /\ is_scanning' <=> scan_task' # 0
       /\ (KeyAbort /\ scan_task # 0) => (~is_scanning' /\ scan_task' = 0)
       /\ (chan' = <<>> /\ SentinelsIn(chan) # <<>>) =>
             (~is_scanning' /\ scan_task' = 0)
       /\ (nruns' > nruns /\ SentinelsIn(chan) = <<>>) =>
             (is_scanning' /\ scan_task' = nruns')]_vars

\* a scan was aborted before its orchestrator pushed a sentinel: flag and slot
\* are clear while its probe tasks are still at work
C21_Witness ==
    /\ ~is_scanning
    /\ scan_task = 0
    /\ \E r \in Runs :
          /\ orch[r].abort
          /\ \A i \in 1..Len(emitted[r]) : emitted[r][i] # 0
          /\ \E t \in TasksOf(r) : tasks[t].pc # "done"

\* C22: for 1 <= start_port <= end_port <= 65535, `end_port - start_port + 1`
\* stays within u16, so scan_range does not panic, and its dispatch loop visits
\* start_port, start_port + 1, ..., end_port, each once, and stops, also when
\* end_port = 65535: the probe tasks spawned are one per port of the range.
C22_DispatchWithinU16 ==
    /\ \A s \in DirectPorts, e \in DirectPorts :
          s <= e => ~CapacityOverflows([mode |-> "range", start_port |-> s,
                                        end_port |-> e])
    /\ \A r \in Runs :
          LET s == orch[r].start_port
              e == orch[r].end_port
              visited == RangeInclusive(s, e)
          IN  (orch[r].mode = "range" /\ 1 <= s /\ s <= e /\ e <= 65535) =>
                  /\ ~CapacityOverflows(orch[r])
                  /\ orch[r].pc # "panicked"
                  /\ Len(visited) = e - s + 1
                  /\ \A i \in 1..Len(visited) : visited[i] = s + i - 1
                  /\ orch[r].pc # "spawned" =>
                        {t[2] : t \in TasksOf(r)} = s..e

\* the probe tasks of the range 65534-65535 have been spawned
C22_Witness ==
    \E r \in Runs :
        /\ orch[r].start_port = 65534
        /\ orch[r].end_port = 65535
        /\ orch[r].pc = "joining"
        /\ Cardinality(TasksOf(r)) = 2

====
